---- MODULE Spec2Model ----
(***************************************************************************)
(* Reelocator: extension classifier, path uniquifier and the               *)
(* traversal/relocation driver (ReelocatorCore + main).                    *)
(*                                                                         *)
(* Three specifications over one set of variables:                         *)
(*   SpecExt   isTargetFile applied to bounded paths                       *)
(*   SpecUniq  getUniqueDestinationPath applied to bounded directories     *)
(*   Spec      one run of main() over a bounded file system                *)
(***************************************************************************)
EXTENDS Integers, Sequences, FiniteSets, Bags, TLC

(***************************************************************************)
(* Bounds of the model                                                     *)
(***************************************************************************)
\* longest path drawn from the small alphabet for isTargetFile
MaxPathLen == 5
\* highest numbered name (stem_1 .. stem_MaxSuffix) a drawn directory may hold
MaxSuffix == 3
\* file-system calls that may fail in one run of main()
MaxFaults == 2
\* longest file name the file system accepts (NAME_MAX)
NameMax == 7
\* length of the byte strings drawn as toLower arguments
MaxLowerLen == 3

(***************************************************************************)
(* Byte strings.  A std::string is a sequence of byte values 0..255.       *)
(***************************************************************************)
Ch == [dot |-> 46, slash |-> 47, d0 |-> 48, d4 |-> 52, under |-> 95,
       a |-> 97,  b |-> 98,  c |-> 99,  d |-> 100, e |-> 101, f |-> 102,
       g |-> 103, h |-> 104, i |-> 105, j |-> 106, k |-> 107, l |-> 108,
       m |-> 109, n |-> 110, o |-> 111, p |-> 112, s |-> 115, t |-> 116,
       u |-> 117, v |-> 118, w |-> 119, x |-> 120, z |-> 122,
       upA |-> 65, upZ |-> 90, caseGap |-> 32]

\* std::tolower in the "C" locale (the program never calls setlocale)
tolower_Identity(c) == c
tolower(c) == IF c >= Ch.upA /\ c <= Ch.upZ THEN c + Ch.caseGap ELSE c

\* std::tolower as a Latin-1 locale has it: bytes 192..222 fold as well
toLower_Latin1(str) ==
    [i \in 1..Len(str) |->
        IF (str[i] >= Ch.upA /\ str[i] <= Ch.upZ) \/ (str[i] >= 192 /\ str[i] <= 222)
        THEN str[i] + Ch.caseGap ELSE str[i]]
toLower(str) == [i \in 1..Len(str) |-> tolower(str[i])]

\* static const std::set<std::string> imageExtensions
imageExtensions ==
    { <<Ch.dot, Ch.j, Ch.p, Ch.g>>,        <<Ch.dot, Ch.j, Ch.p, Ch.e, Ch.g>>,
      <<Ch.dot, Ch.p, Ch.n, Ch.g>>,        <<Ch.dot, Ch.g, Ch.i, Ch.f>>,
      <<Ch.dot, Ch.b, Ch.m, Ch.p>>,        <<Ch.dot, Ch.t, Ch.i, Ch.f, Ch.f>>,
      <<Ch.dot, Ch.t, Ch.i, Ch.f>>,        <<Ch.dot, Ch.w, Ch.e, Ch.b, Ch.p>>,
      <<Ch.dot, Ch.h, Ch.e, Ch.i, Ch.c>>,  <<Ch.dot, Ch.i, Ch.c, Ch.o>> }

\* static const std::set<std::string> videoExtensions
videoExtensions ==
    { <<Ch.dot, Ch.m, Ch.p, Ch.d4>>,       <<Ch.dot, Ch.m, Ch.o, Ch.v>>,
      <<Ch.dot, Ch.a, Ch.v, Ch.i>>,        <<Ch.dot, Ch.m, Ch.k, Ch.v>>,
      <<Ch.dot, Ch.w, Ch.m, Ch.v>>,        <<Ch.dot, Ch.f, Ch.l, Ch.v>>,
      <<Ch.dot, Ch.w, Ch.e, Ch.b, Ch.m>>,  <<Ch.dot, Ch.m, Ch.p, Ch.e, Ch.g>>,
      <<Ch.dot, Ch.m, Ch.p, Ch.g>>,        <<Ch.dot, Ch.m, Ch.d4, Ch.v>> }

MediaType == {"Images", "Videos"}

\* the empty path, also standing for a path variable not yet assigned
NoPath == <<>>

\* positions of byte c in s
Positions(s, c) == {i \in 1..Len(s) : s[i] = c}
SetMax(S) == CHOOSE m \in S : \A n \in S : n <= m

\* fs::path::filename(): the component after the last directory separator
filename(path) ==
    LET seps == Positions(path, Ch.slash)
    IN  IF seps = {} THEN path
        ELSE SubSeq(path, SetMax(seps) + 1, Len(path))

\* fs::path::extension(): from the last period of the filename, unless the
\* filename is "." or "..", has no period, or its only period is the first byte
extension(path) ==
    LET fn   == filename(path)
        dots == Positions(fn, Ch.dot)
    IN  IF fn = <<Ch.dot>> \/ fn = <<Ch.dot, Ch.dot>> THEN <<>>
        ELSE IF dots = {} \/ SetMax(dots) = 1 THEN <<>>
        ELSE SubSeq(fn, SetMax(dots), Len(fn))

\* fs::path::stem(): the filename without its extension
stem(path) ==
    LET fn == filename(path)
    IN  SubSeq(fn, 1, Len(fn) - Len(extension(path)))

\* std::set::find(ext) != end(): exact match
setFind_Prefix(set, ext) ==
    \E s \in set : Len(s) <= Len(ext) /\ SubSeq(ext, 1, Len(s)) = s
setFind(set, ext) == ext \in set

isTargetFile(filePath, mediaType) ==
    LET ext == toLower(extension(filePath))
    IN  IF mediaType = "Images"
        THEN setFind(imageExtensions, ext)
        ELSE setFind(videoExtensions, ext)

(***************************************************************************)
(* Inputs of the classifier                                                *)
(***************************************************************************)
\* every upper/lower-case spelling of s
Casings(s) ==
    { [i \in 1..Len(s) |->
          IF i \in U /\ s[i] >= Ch.a /\ s[i] <= Ch.z
          THEN s[i] - Ch.caseGap ELSE s[i]] : U \in SUBSET (1..Len(s)) }

Alphabet == {Ch.dot, Ch.slash, Ch.j, Ch.p, Ch.g, Ch.x}

RECURSIVE StringsUpTo(_)
StringsUpTo(n) ==
    IF n = 0 THEN {<<>>}
    ELSE LET shorter == StringsUpTo(n - 1)
         IN  shorter \cup {Append(s, c) : s \in shorter, c \in Alphabet}

\* what precedes the extension: a plain stem, a nested one, a dotted one,
\* and a directory separator (making the file a dot-file)
Stems == { <<Ch.a>>, <<Ch.a, Ch.slash, Ch.b>>, <<Ch.a, Ch.dot, Ch.b>>,
           <<Ch.a, Ch.slash>> }
\* what follows the extension: nothing, or one more byte
Tails == { <<>>, <<Ch.x>> }

ListedInputs ==
    { s \o c \o t : s \in Stems, t \in Tails,
                    c \in UNION {Casings(e) : e \in imageExtensions \cup videoExtensions} }
\* a listed extension cut short by one byte (".jp", ".tif" from ".tiff", ...)
CutInputs ==
    { s \o SubSeq(e, 1, Len(e) - 1) : s \in Stems,
                                     e \in imageExtensions \cup videoExtensions }

PathInputs == StringsUpTo(MaxPathLen) \cup ListedInputs \cup CutInputs

\* std::string's default value
EmptyString == <<>>

\* the bytes toLower is given: NUL, a digit, the neighbours of the two letter
\* ranges, letters of both cases, DEL, and bytes outside ASCII
LowerBytes == {0, 48, 64, 65, 77, 90, 91, 96, 97, 122, 123, 127, 128, 200, 255}

RECURSIVE ByteStringsUpTo(_)
ByteStringsUpTo(n) ==
    IF n = 0 THEN {EmptyString}
    ELSE LET shorter == ByteStringsUpTo(n - 1)
         IN  shorter \cup {Append(s, c) : s \in shorter, c \in LowerBytes}

\* "MiXeD.Ext", the argument of testToLowerNormalizesCase
MixedExt == <<77, 105, 88, 101, 68, 46, 69, 120, 116>>

LowerInputs == ByteStringsUpTo(MaxLowerLen) \cup {MixedExt}

(***************************************************************************)
(* The file system: a function from paths (byte strings) to entries.       *)
(* kind "file" and "dir" are what they say; "dangling" is a symbolic link  *)
(* whose target does not exist.  body identifies a file's content.         *)
(***************************************************************************)
Entry(kind, body) == [kind |-> kind, body |-> body]

\* fs::exists(p) is exists(status(p)); status follows symbolic links, so a
\* dangling link has file_type::not_found
exists(fsys, p) == p \in DOMAIN fsys /\ fsys[p].kind # "dangling"

\* fs::path operator/ for a relative right-hand side
pathJoin(dir, name) ==
    IF dir = <<>> \/ dir[Len(dir)] = Ch.slash THEN dir \o name
    ELSE dir \o <<Ch.slash>> \o name

\* std::to_string(int) for a non-negative value
RECURSIVE to_string(_)
to_string(n) ==
    IF n < 10 THEN <<Ch.d0 + n>>
    ELSE Append(to_string(n \div 10), Ch.d0 + (n % 10))

\* stem.string() + "_" + std::to_string(counter) + extension.string()
numberedName(fname, counter) ==
    stem(fname) \o <<Ch.under>> \o to_string(counter) \o extension(fname)

\* a loop that never reuses a gap: one past the highest numbered name found
probe_PastHighest(fsys, destDir, fname, counter) ==
    LET taken == {n \in counter..(counter + MaxSuffix) :
                     exists(fsys, pathJoin(destDir, numberedName(fname, n)))}
    IN  pathJoin(destDir, numberedName(fname, IF taken = {} THEN counter
                                              ELSE SetMax(taken) + 1))
\* the while (true) loop: counter = 1, 2, ... until no candidate exists
RECURSIVE probe(_, _, _, _)
probe(fsys, destDir, fname, counter) ==
    LET candidate == pathJoin(destDir, numberedName(fname, counter))
    IN  IF ~exists(fsys, candidate) THEN candidate
        ELSE probe(fsys, destDir, fname, counter + 1)

getUniqueDestinationPath_AlwaysNumbered(fsys, destDir, fname) ==
    probe(fsys, destDir, fname, 1)
getUniqueDestinationPath(fsys, destDir, fname) ==
    LET candidate == pathJoin(destDir, fname)
    IN  IF ~exists(fsys, candidate) THEN candidate
        ELSE probe(fsys, destDir, fname, 1)

(***************************************************************************)
(* Inputs of the uniquifier                                                *)
(***************************************************************************)
DstDir == <<Ch.d>>
CaptureName == <<Ch.c, Ch.a, Ch.p, Ch.dot, Ch.p, Ch.n, Ch.g>>
UniqNames == { CaptureName,
               <<Ch.a, Ch.dot, Ch.b, Ch.dot, Ch.j, Ch.p, Ch.g>>,  \* a.b.jpg
               <<Ch.dot, Ch.h>>,                                  \* .h
               <<Ch.n>> }                                         \* n

\* index 0 is the plain name, index k >= 1 the name numbered k
NameAt(dir, fname, k) ==
    pathJoin(dir, IF k = 0 THEN fname ELSE numberedName(fname, k))

\* every directory whose entries are among name, name_1 .. name_MaxSuffix,
\* each a regular file, a directory or a dangling link
DirContents(dir, fname) ==
    { [p \in {NameAt(dir, fname, k) : k \in DOMAIN kinds} |->
          LET k == CHOOSE k \in DOMAIN kinds : NameAt(dir, fname, k) = p
          IN  Entry(kinds[k], p)] :
      kinds \in UNION { [S -> {"file", "dir", "dangling"}] :
                        S \in SUBSET (0..MaxSuffix) } }

(***************************************************************************)
(* File-system operations used by main()                                   *)
(***************************************************************************)
\* a path with its trailing separators removed names the same entry
RECURSIVE resolve(_)
resolve(p) ==
    IF Len(p) > 1 /\ p[Len(p)] = Ch.slash THEN resolve(SubSeq(p, 1, Len(p) - 1))
    ELSE p

\* fs::is_directory(p)
is_directory(fsys, p) == exists(fsys, p) /\ fsys[p].kind = "dir"

\* fs::is_regular_file(p)
is_regular_file(fsys, p) == exists(fsys, p) /\ fsys[p].kind = "file"

\* fs::equivalent(a, b): both resolve to the same entry
equivalent_SameString(a, b) == a = b
equivalent(a, b) == resolve(a) = resolve(b)

\* fs::path::parent_path()
parent_path(p) ==
    LET seps == Positions(p, Ch.slash)
    IN  IF seps = {} THEN NoPath ELSE SubSeq(p, 1, SetMax(seps) - 1)

\* the entries a directory stream of dir yields
Children(fsys, dir) == {p \in DOMAIN fsys : parent_path(p) = resolve(dir)}

\* fs::create_directories(p), successful
create_directories(fsys, p) ==
    [q \in DOMAIN fsys \cup {resolve(p)} |->
        IF q \in DOMAIN fsys THEN fsys[q] ELSE Entry("dir", q)]

\* fs::rename(from, to), successful: the entry moves, replacing what is at to
rename_KeepSource(fsys, from, to) ==
    [q \in DOMAIN fsys \cup {to} |-> IF q = to THEN fsys[from] ELSE fsys[q]]
rename(fsys, from, to) ==
    [q \in (DOMAIN fsys \ {from}) \cup {to} |->
        IF q = to THEN fsys[from] ELSE fsys[q]]

\* fs::copy_file(from, to, copy_options::none), successful
copy_file(fsys, from, to) ==
    [q \in DOMAIN fsys \cup {to} |->
        IF q = to THEN Entry("file", fsys[from].body) ELSE fsys[q]]

\* fs::remove(p), successful
remove(fsys, p) == [q \in DOMAIN fsys \ {p} |-> fsys[q]]

(***************************************************************************)
(* Inputs of main(): the three lines read from stdin and the file system   *)
(***************************************************************************)
SrcDir     == <<Ch.s>>                                   \* s
SubDir     == <<Ch.s, Ch.slash, Ch.u>>                   \* s/u
NestedDir  == <<Ch.s, Ch.slash, Ch.o>>                   \* s/o, inside the source
SrcDirSlash == <<Ch.s, Ch.slash>>                        \* s/ names s too
MissingDir == <<Ch.m>>                                   \* m, never on disk
NameA      == <<Ch.a, Ch.dot, Ch.j, Ch.p, Ch.g>>         \* a.jpg
NameA1     == <<Ch.a, Ch.under, Ch.d0 + 1, Ch.dot, Ch.j, Ch.p, Ch.g>>  \* a_1.jpg
NameB      == <<Ch.b, Ch.dot, Ch.m - Ch.caseGap, Ch.p - Ch.caseGap, Ch.d4>>  \* b.MP4

ChoiceInputs == {"1", "2", "3", "1 "}
SourceInputs == {SrcDir, MissingDir, pathJoin(SrcDir, NameB)}
DestinationInputs == {DstDir, NestedDir, SrcDir, SrcDirSlash}

\* the files the source tree may hold
SourceFiles == { pathJoin(SrcDir, NameA), pathJoin(SubDir, NameA),
                 pathJoin(SrcDir, NameB) }

DiskOf(paths, kindOf) == [p \in paths |-> Entry(kindOf[p], p)]

\* what a destination directory dst may hold before the run: nothing at all
\* (dst itself absent), or dst with a.jpg (a file or a dangling link) and
\* a_1.jpg (a file), each present or not; a destination inside the source
\* tree holds at most a.jpg, a file
DestinationContents(dst) ==
    {[p \in {} |-> "file"]} \cup
    { [p \in {dst} \cup S |->
          IF p = dst THEN "dir"
          ELSE IF p = pathJoin(dst, NameA) THEN k ELSE "file"] :
      S \in IF dst = NestedDir THEN SUBSET {pathJoin(dst, NameA)}
            ELSE SUBSET {pathJoin(dst, NameA), pathJoin(dst, NameA1)},
      k \in IF dst = NestedDir THEN {"file"} ELSE {"file", "dangling"} }

InitialDisks(dst) ==
    { LET kindOf == [p \in {SrcDir, SubDir} \cup F \cup DOMAIN dk |->
                        IF p \in {SrcDir, SubDir} THEN "dir"
                        ELSE IF p \in DOMAIN dk THEN dk[p] ELSE "file"]
      IN  DiskOf(DOMAIN kindOf, kindOf) :
      F \in SUBSET SourceFiles,
      dk \in IF equivalent(dst, SrcDir) THEN {[p \in {} |-> "file"]}
             ELSE DestinationContents(resolve(dst)) }

(***************************************************************************)
(* State                                                                   *)
(***************************************************************************)
VARIABLES
    filePath, mediaType,                 \* isTargetFile: arguments
    targetResult, pcExt,                 \* its return value, and whether it returned
    value, lowered, pcLow,               \* toLower: argument, return value, whether it returned
    disk,                                \* the file system
    destinationDir,                      \* main / getUniqueDestinationPath: destinationDir
    uFilename,                           \* getUniqueDestinationPath: filename
    uniquePath,                          \* getUniqueDestinationPath: return value
    pc,                                  \* where main() is
    choiceInput, sourceInput, destinationInput,   \* the lines of stdin
    selectedType, sourceDir,
    movedCount, skippedCount,
    it,                                  \* the recursive_directory_iterator
    currentPath, finalDestination,
    log,                                 \* bag of the lines written to cout / cerr
    exitCode,                            \* main's return value, -1 while running
    faults,                              \* number of failed file-system calls so far
    failed,                                 \* the calls that failed
    ops,                                 \* what was done for the current entry
    steps,                               \* number of steps main() has taken
    disk0                                \* the file system main() started with

extVars == <<filePath, mediaType, targetResult, pcExt, value, lowered, pcLow>>
uniqVars == <<uFilename, uniquePath>>
inputVars == <<choiceInput, sourceInput, destinationInput, disk0>>
mainVars == <<pc, inputVars, selectedType, sourceDir, movedCount, skippedCount,
              it, currentPath, finalDestination, log, exitCode, faults, failed,
              ops, steps>>
vars == <<extVars, uniqVars, disk, destinationDir, mainVars>>

EmptyDisk == [p \in {} |-> Entry("file", NoPath)]
Running == 0 - 1
NoIterator == [stack |-> <<>>, descend |-> NoPath]

LowerIdle == value = EmptyString /\ lowered = EmptyString /\ pcLow = "idle"
ExtIdle ==
    /\ filePath = NoPath /\ mediaType = "Images" /\ targetResult = FALSE /\ pcExt = "idle"
    /\ LowerIdle
UniqIdle == uFilename = NoPath /\ uniquePath = NoPath
MainLocals ==
    /\ selectedType = "unset" /\ sourceDir = NoPath
    /\ movedCount = 0 /\ skippedCount = 0
    /\ it = NoIterator
    /\ currentPath = NoPath /\ finalDestination = NoPath
    /\ log = EmptyBag /\ exitCode = Running
    /\ faults = 0 /\ failed = {} /\ ops = <<>> /\ steps = 0
MainIdle ==
    /\ pc = "idle" /\ choiceInput = "" /\ sourceInput = NoPath
    /\ destinationInput = NoPath /\ disk0 = EmptyDisk
    /\ MainLocals

(***************************************************************************)
(* SpecExt: the extension classifier                                       *)
(***************************************************************************)
InitExt ==
    /\ filePath \in PathInputs
    /\ mediaType \in MediaType
    /\ targetResult = FALSE
    /\ pcExt = "call"
    /\ LowerIdle
    /\ UniqIdle
    /\ MainIdle
    /\ disk = EmptyDisk
    /\ destinationDir = NoPath

CallIsTargetFile ==
    /\ pcExt = "call"
    /\ targetResult' = isTargetFile(filePath, mediaType)
    /\ pcExt' = "return"
    /\ UNCHANGED <<filePath, mediaType, value, lowered, pcLow, uniqVars, disk,
                   destinationDir, mainVars>>

NextExt == CallIsTargetFile

SpecExt == InitExt /\ [][NextExt]_vars

(***************************************************************************)
(* SpecLower: the case folder                                              *)
(***************************************************************************)
InitLower ==
    /\ value \in LowerInputs
    /\ lowered = EmptyString
    /\ pcLow = "call"
    /\ filePath = NoPath /\ mediaType = "Images" /\ targetResult = FALSE /\ pcExt = "idle"
    /\ UniqIdle
    /\ MainIdle
    /\ disk = EmptyDisk
    /\ destinationDir = NoPath

CallToLower ==
    /\ pcLow = "call"
    /\ lowered' = toLower(value)
    /\ pcLow' = "return"
    /\ UNCHANGED <<filePath, mediaType, targetResult, pcExt, value, uniqVars, disk,
                   destinationDir, mainVars>>

NextLower == CallToLower

SpecLower == InitLower /\ [][NextLower]_vars

(***************************************************************************)
(* SpecUniq: the path uniquifier                                           *)
(***************************************************************************)
InitUniq ==
    /\ ExtIdle
    /\ MainIdle
    /\ destinationDir = DstDir
    /\ uFilename \in UniqNames
    /\ disk \in DirContents(DstDir, uFilename)
    /\ uniquePath = NoPath

CallGetUniqueDestinationPath ==
    /\ uniquePath = NoPath
    /\ uFilename # NoPath
    /\ uniquePath' = getUniqueDestinationPath(disk, destinationDir, uFilename)
    /\ UNCHANGED <<extVars, uFilename, disk, destinationDir, mainVars>>

NextUniq == CallGetUniqueDestinationPath

SpecUniq == InitUniq /\ [][NextUniq]_vars

(***************************************************************************)
(* Spec: one run of main()                                                 *)
(***************************************************************************)
InitMain ==
    /\ ExtIdle
    /\ UniqIdle
    /\ choiceInput \in ChoiceInputs
    /\ sourceInput \in SourceInputs
    /\ destinationInput \in DestinationInputs
    /\ disk \in InitialDisks(destinationInput)
    /\ disk0 = disk
    /\ destinationDir = NoPath
    /\ pc = "readChoice"
    /\ MainLocals

Line(kind, from, to) == [kind |-> kind, from |-> from, to |-> to]
Print1(bag, line) == bag (+) SetToBag({line})

\* a return from main with an error line on cerr
Fatal_ReturnsZero(kind) ==
    /\ log' = Print1(log, Line(kind, NoPath, NoPath))
    /\ exitCode' = 0
    /\ pc' = "exit"
Fatal(kind) ==
    /\ log' = Print1(log, Line(kind, NoPath, NoPath))
    /\ exitCode' = 1
    /\ pc' = "exit"

\* the file-system call named call fails with filesystem_error
Fault(call) ==
    /\ faults < MaxFaults
    /\ faults' = faults + 1
    /\ failed' = failed \cup {call}

\* call throws inside the outer try block: its catch
TraversalError(call) ==
    /\ Fault(call)
    /\ ops' = Append(ops, call)
    /\ Fatal("Traversal error")

\* std::getline of the choice, the if/else on it, and the two path prompts
ReadChoice ==
    /\ pc = "readChoice"
    /\ steps' = steps + 1
    /\ IF choiceInput \in {"1", "2"}
       THEN /\ selectedType' = (IF choiceInput = "1" THEN "Images" ELSE "Videos")
            /\ sourceDir' = sourceInput
            /\ destinationDir' = destinationInput
            /\ pc' = "checkSource"
            /\ UNCHANGED <<log, exitCode>>
       ELSE /\ Fatal("Error: Invalid choice")
            /\ UNCHANGED <<selectedType, sourceDir, destinationDir>>
    /\ UNCHANGED <<extVars, uniqVars, disk, inputVars, movedCount, skippedCount,
                   it, currentPath, finalDestination, faults, failed, ops>>

CheckSource ==
    /\ pc = "checkSource"
    /\ steps' = steps + 1
    /\ IF ~exists(disk, resolve(sourceDir)) \/ ~is_directory(disk, resolve(sourceDir))
       THEN Fatal("Error: Source path")
       ELSE pc' = "checkSame" /\ UNCHANGED <<log, exitCode>>
    /\ UNCHANGED <<extVars, uniqVars, disk, destinationDir, inputVars, selectedType,
                   sourceDir, movedCount, skippedCount, it, currentPath,
                   finalDestination, faults, failed, ops>>

CheckSame ==
    /\ pc = "checkSame"
    /\ steps' = steps + 1
    /\ IF exists(disk, resolve(destinationDir)) /\ equivalent(sourceDir, destinationDir)
       THEN Fatal("Error: Source and destination")
       ELSE pc' = "createDest" /\ UNCHANGED <<log, exitCode>>
    /\ UNCHANGED <<extVars, uniqVars, disk, destinationDir, inputVars, selectedType,
                   sourceDir, movedCount, skippedCount, it, currentPath,
                   finalDestination, faults, failed, ops>>

CreateDest ==
    /\ pc = "createDest"
    /\ steps' = steps + 1
    /\ IF exists(disk, resolve(destinationDir))
       THEN pc' = "openIter" /\ UNCHANGED <<disk, log, exitCode, faults, failed>>
       ELSE \/ /\ disk' = create_directories(disk, destinationDir)
               /\ pc' = "openIter"
               /\ UNCHANGED <<log, exitCode, faults, failed>>
            \/ /\ Fault("create_directories")
               /\ Fatal("Error creating destination directory")
               /\ UNCHANGED disk
    /\ UNCHANGED <<extVars, uniqVars, destinationDir, inputVars, selectedType,
                   sourceDir, movedCount, skippedCount, it, currentPath,
                   finalDestination, ops>>

(* The iterator.  A recursive_directory_iterator is a stack of directory   *)
(* streams; pending holds the entries a stream has still to yield.  After  *)
(* yielding a directory the next increment opens it.                       *)
Frame(dir) == [dir |-> dir, pending |-> Children(disk, dir)]

\* an increment that never closes an exhausted stream
PopEmpty_Keeps(stack) == stack
RECURSIVE PopEmpty(_)
PopEmpty(stack) ==
    IF stack # <<>> /\ stack[Len(stack)].pending = {}
    THEN PopEmpty(SubSeq(stack, 1, Len(stack) - 1))
    ELSE stack

\* the stack once the pending descent is made and exhausted streams are closed
Advanced == PopEmpty(IF it.descend # NoPath
                     THEN Append(it.stack, Frame(it.descend))
                     ELSE it.stack)

\* recursive_directory_iterator it(sourceDir, skip_permission_denied)
OpenIter ==
    /\ pc = "openIter"
    /\ steps' = steps + 1
    /\ \/ /\ it' = [stack |-> <<Frame(sourceDir)>>, descend |-> NoPath]
          /\ pc' = "advance"
          /\ UNCHANGED <<log, exitCode, faults, failed, ops>>
       \/ TraversalError("iterator") /\ UNCHANGED it
    /\ UNCHANGED <<extVars, uniqVars, disk, destinationDir, inputVars, selectedType,
                   sourceDir, movedCount, skippedCount, currentPath,
                   finalDestination>>

\* it != end, and currentPath = it->path() of the next entry
Advance ==
    /\ pc = "advance"
    /\ steps' = steps + 1
    /\ Advanced # <<>>
    /\ \/ \E e \in Advanced[Len(Advanced)].pending :
             /\ it' = [stack |-> [Advanced EXCEPT ![Len(Advanced)].pending = @ \ {e}],
                       descend |-> IF e \in DOMAIN disk /\ disk[e].kind = "dir"
                                   THEN e ELSE NoPath]
             /\ currentPath' = e
             /\ ops' = <<"visit">>
             /\ pc' = "classify"
             /\ UNCHANGED <<log, exitCode, faults, failed>>
       \/ TraversalError("iterator") /\ UNCHANGED <<it, currentPath>>
    /\ UNCHANGED <<extVars, uniqVars, disk, destinationDir, inputVars, selectedType,
                   sourceDir, movedCount, skippedCount, finalDestination>>

\* it == end: the summary line and return 0
Finish ==
    /\ pc = "advance"
    /\ steps' = steps + 1
    /\ Advanced = <<>>
    /\ it' = NoIterator
    /\ log' = Print1(log, Line("Done", NoPath, NoPath))
    /\ exitCode' = 0
    /\ pc' = "exit"
    /\ UNCHANGED <<extVars, uniqVars, disk, destinationDir, inputVars, selectedType,
                   sourceDir, movedCount, skippedCount, currentPath,
                   finalDestination, faults, failed, ops>>

\* if (!it->is_regular_file()) continue; if (!isTargetFile(...)) continue;
Classify ==
    /\ pc = "classify"
    /\ steps' = steps + 1
    /\ \/ /\ ~is_regular_file(disk, currentPath)
          /\ ops' = Append(ops, "notRegular")
          /\ pc' = "advance"
          /\ UNCHANGED <<log, exitCode, faults, failed>>
       \/ /\ is_regular_file(disk, currentPath)
          /\ ~isTargetFile(currentPath, selectedType)
          /\ ops' = Append(ops, "notMatching")
          /\ pc' = "advance"
          /\ UNCHANGED <<log, exitCode, faults, failed>>
       \/ /\ is_regular_file(disk, currentPath)
          /\ isTargetFile(currentPath, selectedType)
          /\ ops' = Append(ops, "matching")
          /\ pc' = "unique"
          /\ UNCHANGED <<log, exitCode, faults, failed>>
       \/ \* is_regular_file() throws: caught by the outer catch
          /\ TraversalError("is_regular_file")
    /\ UNCHANGED <<extVars, uniqVars, disk, destinationDir, inputVars, selectedType,
                   sourceDir, movedCount, skippedCount, it, currentPath,
                   finalDestination>>

\* fs::path finalDestination = getUniqueDestinationPath(destinationDir, filename)
Unique ==
    /\ pc = "unique"
    /\ steps' = steps + 1
    /\ \/ /\ finalDestination' =
                getUniqueDestinationPath(disk, destinationDir, filename(currentPath))
          /\ ops' = Append(ops, "unique")
          /\ pc' = "rename"
          /\ UNCHANGED <<log, exitCode, faults, failed>>
       \/ \* fs::exists() throws: caught by the outer catch
          /\ TraversalError("exists")
          /\ UNCHANGED finalDestination
    /\ UNCHANGED <<extVars, uniqVars, disk, destinationDir, inputVars, selectedType,
                   sourceDir, movedCount, skippedCount, it, currentPath>>

\* whether an open directory stream yields an entry created after it was
\* opened is unspecified: the stream of q's directory may pick q up or not
Observe(q) ==
    \/ UNCHANGED it
    \/ \E i \in 1..Len(it.stack) :
          /\ it.stack[i].dir = parent_path(q)
          /\ q \notin it.stack[i].pending
          /\ it' = [it EXCEPT !.stack[i].pending = @ \cup {q}]

\* whether the file system accepts the last component of p; rename and
\* copy_file to a longer name fail with ENAMETOOLONG
Fits(p) == Len(filename(p)) <= NameMax
\* call throws because the name of finalDestination is too long
TooLong(call) ==
    /\ ~Fits(finalDestination)
    /\ failed' = failed \cup {call}
    /\ UNCHANGED faults

\* the innermost catch: ++skippedCount and the Skipped line
Skip_CountedTwice ==
    /\ skippedCount' = skippedCount + 2
    /\ log' = Print1(log, Line("Skipped", currentPath, NoPath))
    /\ pc' = "advance"
\* a catch that reports the skip without counting it
Skip_Uncounted ==
    /\ skippedCount' = skippedCount
    /\ log' = Print1(log, Line("Skipped", currentPath, NoPath))
    /\ pc' = "advance"
Skip ==
    /\ skippedCount' = skippedCount + 1
    /\ log' = Print1(log, Line("Skipped", currentPath, NoPath))
    /\ pc' = "advance"

\* fs::rename(currentPath, finalDestination); ++movedCount; the Moved line
Rename ==
    /\ pc = "rename"
    /\ steps' = steps + 1
    /\ \/ /\ Fits(finalDestination)
          /\ disk' = rename(disk, currentPath, finalDestination)
          /\ movedCount' = movedCount + 1
          /\ log' = Print1(log, Line("Moved", currentPath, finalDestination))
          /\ ops' = Append(ops, "renameOk")
          /\ pc' = "advance"
          /\ Observe(finalDestination)
          /\ UNCHANGED <<faults, failed>>
       \/ /\ Fault("rename") \/ TooLong("rename")
          /\ ops' = Append(ops, "renameFailed")
          /\ pc' = "copy"
          /\ UNCHANGED <<disk, movedCount, log, it>>
    /\ UNCHANGED <<extVars, uniqVars, destinationDir, inputVars, selectedType,
                   sourceDir, skippedCount, currentPath, finalDestination, exitCode>>

\* fs::copy_file(currentPath, finalDestination, fs::copy_options::none)
CopyFile ==
    /\ pc = "copy"
    /\ steps' = steps + 1
    /\ \/ /\ ~exists(disk, finalDestination)
          /\ Fits(finalDestination)
          /\ disk' = copy_file(disk, currentPath, finalDestination)
          /\ ops' = Append(ops, "copyOk")
          /\ pc' = "remove"
          /\ Observe(finalDestination)
          /\ UNCHANGED <<skippedCount, log, faults, failed>>
       \/ /\ Fault("copy_file") \/ TooLong("copy_file")
          /\ ops' = Append(ops, "copyFailed")
          /\ Skip
          /\ UNCHANGED <<disk, it>>
    /\ UNCHANGED <<extVars, uniqVars, destinationDir, inputVars, selectedType,
                   sourceDir, movedCount, currentPath, finalDestination, exitCode>>

\* fs::remove(currentPath); ++movedCount; the Moved (copy+delete) line
Remove ==
    /\ pc = "remove"
    /\ steps' = steps + 1
    /\ \/ /\ disk' = remove(disk, currentPath)
          /\ movedCount' = movedCount + 1
          /\ log' = Print1(log, Line("Moved (copy+delete)", currentPath, finalDestination))
          /\ ops' = Append(ops, "removeOk")
          /\ pc' = "advance"
          /\ UNCHANGED <<skippedCount, faults, failed>>
       \/ /\ Fault("remove")
          /\ ops' = Append(ops, "removeFailed")
          /\ Skip
          /\ UNCHANGED <<disk, movedCount>>
    /\ UNCHANGED <<extVars, uniqVars, destinationDir, inputVars, selectedType,
                   sourceDir, it, currentPath, finalDestination, exitCode>>

Next ==
    \/ ReadChoice
    \/ CheckSource
    \/ CheckSame
    \/ CreateDest
    \/ OpenIter
    \/ Advance
    \/ Finish
    \/ Classify
    \/ Unique
    \/ Rename
    \/ CopyFile
    \/ Remove

Spec == InitMain /\ [][Next]_vars

(***************************************************************************)
(* Claims about the extension classifier (SpecExt)                         *)
(***************************************************************************)
IsLowerLetter(c) == c >= Ch.a /\ c <= Ch.z
IsUpperLetter(c) == c >= Ch.upA /\ c <= Ch.upZ

\* byte x spells the lower-case list byte y, in either case
Spells(x, y) == x = y \/ (IsLowerLetter(y) /\ x = y - Ch.caseGap)

\* path ends in a spelling of the listed extension e, and that spelling is
\* preceded by at least one byte of the same file name
HasListedExt(path, e) ==
    /\ Len(path) > Len(e)
    /\ path[Len(path) - Len(e)] # Ch.slash
    /\ \A i \in 1..Len(e) : Spells(path[Len(path) - Len(e) + i], e[i])

\* C1: for a path whose extension is a listed image or video extension in
\* any letter-casing, isTargetFile returns true for the media type that owns
\* the extension and false for the other one; the two lists are disjoint.
C1_ListedExtensionMatchesOwner ==
    /\ imageExtensions \cap videoExtensions = {}
    /\ pcExt = "return" =>
         /\ \A e \in imageExtensions :
              HasListedExt(filePath, e) => (targetResult = (mediaType = "Images"))
         /\ \A e \in videoExtensions :
              HasListedExt(filePath, e) => (targetResult = (mediaType = "Videos"))

\* a video extension spelled with an upper-case letter was accepted for Videos
C1_Witness ==
    /\ pcExt = "return"
    /\ \E e \in videoExtensions : HasListedExt(filePath, e)
    /\ \E i \in 1..Len(filePath) : IsUpperLetter(filePath[i])
    /\ mediaType = "Videos"
    /\ targetResult = TRUE

\* C2: for a path whose extension is in neither list (empty, a strict
\* prefix such as ".jp", or with extra bytes such as ".jpgx"), isTargetFile
\* returns false for Images and for Videos.
C2_UnlistedExtensionRejected ==
    (pcExt = "return" /\ \A e \in imageExtensions \cup videoExtensions :
                            ~HasListedExt(filePath, e))
        => targetResult = FALSE

\* "a.jpgx" was rejected
C2_Witness ==
    /\ pcExt = "return"
    /\ filePath = <<Ch.a, Ch.dot, Ch.j, Ch.p, Ch.g, Ch.x>>
    /\ targetResult = FALSE

(***************************************************************************)
(* Claims about the path uniquifier (SpecUniq)                             *)
(***************************************************************************)
Returned == uniquePath # NoPath
PlainPath == pathJoin(destinationDir, uFilename)
NumberedPath(n) == pathJoin(destinationDir, numberedName(uFilename, n))

\* C3: when an entry exists at destinationDir/filename, the result is
\* destinationDir/<stem>_<N><ext> with N the smallest integer >= 1 such that
\* no entry exists at that name.
C3_SmallestFreeSuffix ==
    (Returned /\ PlainPath \in DOMAIN disk) =>
        \E n \in 1..(MaxSuffix + 1) :
            /\ uniquePath = NumberedPath(n)
            /\ NumberedPath(n) \notin DOMAIN disk
            /\ \A j \in 1..(n - 1) : NumberedPath(j) \in DOMAIN disk

\* C4: when no entry exists at destinationDir/filename, the result is exactly
\* destinationDir/filename, whatever numbered names the directory holds.
C4_FreePlainNameReturned ==
    (Returned /\ PlainPath \notin DOMAIN disk) => uniquePath = PlainPath

\* the plain name was free while name_1 was taken, and the plain name came back
C4_Witness ==
    /\ Returned
    /\ PlainPath \notin DOMAIN disk
    /\ NumberedPath(1) \in DOMAIN disk
    /\ uniquePath = PlainPath

\* C5: the returned path names no entry that exists in the directory at the
\* moment of the call.
C5_ReturnedPathNamesNoEntry ==
    Returned => uniquePath \notin DOMAIN disk

(***************************************************************************)
(* Claims about a run of main() (Spec)                                     *)
(***************************************************************************)
Exited == pc = "exit"
Listed(type) == IF type = "Images" THEN imageExtensions ELSE videoExtensions

\* p lies below directory root, at any depth
InTree(p, root) ==
    /\ Len(p) > Len(root) + 1
    /\ SubSeq(p, 1, Len(root) + 1) = root \o <<Ch.slash>>

\* the regular files of the source tree at the start of the run
SourceFiles0 == {p \in DOMAIN disk0 : InTree(p, SrcDir) /\ disk0[p].kind = "file"}
\* those whose extension is listed for the selected media type
Matching0 == {p \in SourceFiles0 : \E e \in Listed(selectedType) : HasListedExt(p, e)}

\* the content of p is held by a regular file directly in directory dir
InRootOf(dir, p) ==
    \E q \in DOMAIN disk :
        parent_path(q) = dir /\ disk[q].kind = "file" /\ disk[q].body = disk0[p].body

\* the content of p is held by some entry below directory root
SomewhereBelow(root, p) ==
    \E q \in DOMAIN disk : InTree(q, root) /\ disk[q].body = disk0[p].body

DestinationOutside ==
    /\ ~equivalent(destinationInput, sourceInput)
    /\ ~InTree(resolve(destinationInput), resolve(sourceInput))

\* C6: in a run that completes, in which no move fails and whose destination
\* lies outside the source tree, every matching regular file of the source
\* tree ends directly in the destination root and is gone from the source,
\* every other file is still at its source path, movedCount is the number of
\* matching files and skippedCount is 0.
C6_AllMatchingFilesRelocated ==
    (/\ Exited /\ exitCode = 0
     /\ failed \cap {"copy_file", "remove"} = {}
     /\ DestinationOutside)
    => /\ \A p \in Matching0 :
            InRootOf(resolve(destinationDir), p) /\ ~SomewhereBelow(sourceDir, p)
       /\ \A p \in SourceFiles0 \ Matching0 :
            p \in DOMAIN disk /\ disk[p] = disk0[p]
       /\ movedCount = Cardinality(Matching0)
       /\ skippedCount = 0

\* a.jpg, u/a.jpg and b.MP4 in the source, Images selected: two files moved
\* into d, b.MP4 untouched
C6_Witness ==
    /\ Exited /\ exitCode = 0
    /\ failed = {}
    /\ destinationDir = DstDir
    /\ selectedType = "Images"
    /\ Cardinality(SourceFiles0) = 3
    /\ movedCount = 2
    /\ pathJoin(SrcDir, NameB) \in DOMAIN disk
    /\ pathJoin(DstDir, NameA) \in DOMAIN disk
    /\ pathJoin(DstDir, NameA1) \in DOMAIN disk

\* the regular files the destination directory held at the start of the run
DestinationFiles0 ==
    {p \in DOMAIN disk0 :
        parent_path(p) = resolve(destinationInput) /\ disk0[p].kind = "file"}

\* C7: no file is overwritten by a run: after the run every file present in
\* the destination before it is still present under the same name with the
\* same content, and files of the same base name that reach the destination
\* are there under distinct names.
C7_DestinationFilesKept ==
    Exited =>
      /\ \A p \in DestinationFiles0 : p \in DOMAIN disk /\ disk[p] = disk0[p]
      /\ \A p, q \in Matching0 :
            (p # q /\ InRootOf(resolve(destinationInput), p)
                   /\ InRootOf(resolve(destinationInput), q))
            => \E x, y \in DOMAIN disk :
                  /\ x # y
                  /\ disk[x].body = disk0[p].body
                  /\ disk[y].body = disk0[q].body

\* the three input validation errors, read off the inputs
BadChoice == choiceInput \notin {"1", "2"}
BadSource ==
    \/ resolve(sourceInput) \notin DOMAIN disk0
    \/ disk0[resolve(sourceInput)].kind # "dir"
SameFolder ==
    /\ resolve(destinationInput) \in DOMAIN disk0
    /\ resolve(destinationInput) = resolve(sourceInput)
InvalidInput == BadChoice \/ BadSource \/ SameFolder

\* C8: a menu choice other than "1" or "2", a source that is missing or not a
\* directory, or an existing destination equivalent to the source ends the
\* run with exit status 1 before the file system is touched: no directory is
\* created and no file is moved, copied or deleted.
C8_InvalidInputExitsUntouched ==
    InvalidInput =>
        /\ disk = disk0
        /\ movedCount = 0 /\ skippedCount = 0
        /\ pc \in {"readChoice", "checkSource", "checkSame", "exit"}
        /\ Exited => exitCode = 1

\* destination "s/" names the source "s": exit 1
C8_Witness ==
    /\ Exited /\ exitCode = 1
    /\ ~BadChoice /\ ~BadSource
    /\ destinationInput = SrcDirSlash
    /\ SourceFiles0 # {}

Last(seq) == seq[Len(seq)]
SkippedLines(bag, path) ==
    CopiesIn(Line("Skipped", path, NoPath), bag)

\* C9: when the rename fails the copy is attempted; when the copy or the
\* delete then fails, the file stays at its source path, skippedCount grows
\* by exactly 1, movedCount is unchanged, a Skipped line is written, the
\* traversal goes on, and a run whose only failures are such move failures
\* ends with exit status 0.
C9_FailedFallbackSkips ==
    /\ [][ /\ (pc = "rename" /\ failed' # failed) => pc' = "copy"
           /\ (pc \in {"copy", "remove"} /\ faults' # faults) =>
                /\ currentPath \in DOMAIN disk'
                /\ disk'[currentPath] = disk[currentPath]
                /\ skippedCount' = skippedCount + 1
                /\ movedCount' = movedCount
                /\ SkippedLines(log', currentPath) = SkippedLines(log, currentPath) + 1
                /\ pc' = "advance"
                /\ exitCode' = Running ]_vars
    /\ [](( /\ Exited /\ ~InvalidInput
            /\ failed \subseteq {"rename", "copy_file", "remove"}) => exitCode = 0)

\* a run with a failed rename and a failed copy skipped that file, moved
\* another and returned 0
C9_Witness ==
    /\ Exited /\ exitCode = 0
    /\ failed = {"rename", "copy_file"}
    /\ skippedCount = 1
    /\ movedCount = 1

\* C10: only precondition failures and failures of the directory iterator
\* abort the process; a failure while handling one entry (the regular-file
\* query, the existence probe, rename, copy, delete) is caught and skipped.
C10_EntryFailuresNeverAbort ==
    (Exited /\ exitCode = 1 /\ ops # <<>>) =>
        Last(ops) \notin {"is_regular_file", "exists", "renameFailed",
                          "copyFailed", "removeFailed"}

\* the calls whose filesystem_error reaches the outer catch
TraversalCalls == {"iterator", "is_regular_file", "exists"}
DoneLines == CopiesIn(Line("Done", NoPath, NoPath), log)
\* the files of the initial file system for which a Moved line was written
MovedFiles0 ==
    {p \in DOMAIN disk0 :
        \E l \in BagToSet(log) :
            l.kind \in {"Moved", "Moved (copy+delete)"} /\ l.from = p}

\* C11: a traversal-level error part-way through the walk ends the run with
\* exit status 1 and rolls nothing back: the step that reports it leaves the
\* file system and the counters as they are, every file moved before it is
\* still in the destination and no longer at its source path, and no
\* summary line is written.
C11_TraversalErrorKeepsMoves ==
    /\ [][(pc' = "exit" /\ failed' \cap TraversalCalls # {}) =>
            /\ disk' = disk
            /\ movedCount' = movedCount
            /\ skippedCount' = skippedCount ]_vars
    /\ []((Exited /\ failed \cap TraversalCalls # {}) =>
            /\ exitCode = 1
            /\ DoneLines = 0
            /\ \A p \in MovedFiles0 :
                  /\ InRootOf(resolve(destinationDir), p)
                  /\ p \in DOMAIN disk => disk[p].body # disk0[p].body)

\* the iterator failed after one file had been moved
C11_Witness ==
    /\ Exited /\ exitCode = 1
    /\ "iterator" \in failed
    /\ movedCount = 1
    /\ MovedFiles0 # {}
    /\ DoneLines = 0

\* C12: toLower is idempotent, is the identity on every string without an
\* upper-case ASCII letter, preserves the length, and changes only the bytes
\* A-Z, each to the lower-case letter 32 above it; the bytes outside ASCII
\* come back unchanged.
C12_ToLowerFoldsOnlyAsciiUpper ==
    pcLow = "return" =>
        /\ toLower(lowered) = lowered
        /\ (\A i \in 1..Len(value) : ~IsUpperLetter(value[i])) => lowered = value
        /\ Len(lowered) = Len(value)
        /\ \A i \in 1..Len(value) :
              /\ lowered[i] # value[i] =>
                    /\ IsUpperLetter(value[i])
                    /\ IsLowerLetter(lowered[i])
                    /\ lowered[i] - value[i] = Ch.caseGap
              /\ IsUpperLetter(value[i]) => lowered[i] # value[i]
              /\ value[i] >= 128 => lowered[i] = value[i]

\* an upper-case letter, a byte outside ASCII and a lower-case letter in one string
C12_Witness ==
    /\ pcLow = "return"
    /\ value = <<65, 200, 97>>
    /\ lowered = <<97, 200, 97>>

MovedKinds == {"Moved", "Moved (copy+delete)"}
\* the lines that report the outcome of one processed file
OutcomeLines == {l \in BagToSet(log) : l.kind \in MovedKinds \cup {"Skipped"}}

\* C13: in a run that passed the precondition checks no file is processed
\* more than once, also when the destination lies inside the source tree:
\* each path has at most one outcome line, and a path a file was moved to is
\* never the current entry of the walk nor the source of a later outcome.
C13_NoFileProcessedTwice ==
    /\ \A l \in OutcomeLines : CopiesIn(l, log) = 1
    /\ \A l, k \in OutcomeLines : l.from = k.from => l = k
    /\ \A l \in OutcomeLines :
          l.kind \in MovedKinds =>
              /\ currentPath # l.to
              /\ \A k \in OutcomeLines : k.from # l.to

IsPrefix(a, b) == Len(a) <= Len(b) /\ SubSeq(b, 1, Len(a)) = a
\* what may happen to one entry of the walk, from its visit to its outcome
EntryRuns ==
    { <<"visit", "notRegular">>,
      <<"visit", "notMatching">>,
      <<"visit", "matching", "unique", "renameOk">>,
      <<"visit", "matching", "unique", "renameFailed", "copyOk", "removeOk">>,
      <<"visit", "matching", "unique", "renameFailed", "copyOk", "removeFailed">>,
      <<"visit", "matching", "unique", "renameFailed", "copyFailed">> }
\* the steps of the current entry, without an iterator failure that follows them
EntryOps ==
    IF ops # <<>> /\ Last(ops) = "iterator" THEN SubSeq(ops, 1, Len(ops) - 1) ELSE ops

\* C14: for a matching regular file the unique destination is computed
\* first, then exactly one rename is attempted, and a copy only after that
\* rename failed; every visited entry reaches exactly one of the five
\* outcomes, and it has reached it before the next entry is visited and
\* when the run ends.
C14_OneOutcomePerEntryInOrder ==
    /\ [](\E run \in EntryRuns : IsPrefix(EntryOps, run))
    /\ [][pc' = "classify" => (ops = <<>> \/ ops \in EntryRuns)]_vars
    /\ []((Exited \/ pc = "advance") => (EntryOps = <<>> \/ EntryOps \in EntryRuns))

\* C15 (as stated): suffixes are never taken from a gap: when
\* destinationDir/stem.ext exists and some stem_k.ext exists while a
\* lower-numbered stem_j.ext does not, the returned suffix is not j.
C15_GapNeverReused ==
    (Returned /\ PlainPath \in DOMAIN disk) =>
        \A j, k \in 1..MaxSuffix :
            (j < k /\ NumberedPath(k) \in DOMAIN disk /\ NumberedPath(j) \notin DOMAIN disk)
                => uniquePath # NumberedPath(j)

\* C15 (amended): the suffixes are probed in increasing order from 1 and the
\* first one whose name fs::exists does not find is returned, so a gap is
\* reused: when destinationDir/stem.ext exists and some stem_k.ext exists
\* while stem_j.ext (j < k) is not found and every lower-numbered name is
\* found, the returned suffix is j.
C15_FirstGapReturned ==
    (Returned /\ exists(disk, PlainPath)) =>
        \A j, k \in 1..MaxSuffix :
            ( /\ j < k
              /\ exists(disk, NumberedPath(k))
              /\ ~exists(disk, NumberedPath(j))
              /\ \A i \in 1..(j - 1) : exists(disk, NumberedPath(i)) )
                => uniquePath = NumberedPath(j)

\* name and name_1 and name_3 are taken, name_2 is free and is what came back
C15_Witness ==
    /\ Returned
    /\ exists(disk, PlainPath)
    /\ exists(disk, NumberedPath(1))
    /\ NumberedPath(2) \notin DOMAIN disk
    /\ exists(disk, NumberedPath(3))
    /\ uniquePath = NumberedPath(2)

\* a file renamed inside the destination while its directory was being
\* enumerated, and visited again under its new name
RevisitedInDestination ==
    \E l, k \in OutcomeLines :
        /\ l.kind \in MovedKinds
        /\ parent_path(l.from) = parent_path(l.to)
        /\ k.from = l.to

\* the steps one entry of the walk takes at most
EntrySteps == {"advance", "classify", "unique", "rename", "copy", "remove"}
StepsPerEntry == Cardinality(EntrySteps)
\* a bound on the steps of a run: the checks before the walk and the summary,
\* and for every entry there is or comes to be (a failed remove leaves a
\* copy behind) one visit per length its name can grow to
StepBound ==
    StepsPerEntry
    + StepsPerEntry * (Cardinality(DOMAIN disk0) + MaxFaults) * (NameMax + 1)

\* the suffix-probing loop ends within as many candidates as the file
\* system has entries, plus one
ProbingEnds ==
    LET fname == filename(currentPath)
    IN  \E n \in 0..Cardinality(DOMAIN disk) :
            getUniqueDestinationPath(disk, destinationDir, fname)
                = NameAt(destinationDir, fname, n)

\* main() has a statement to run next
CanStep ==
    /\ pc \in {"readChoice", "checkSource", "checkSame", "createDest", "openIter"} =>
          ENABLED (ReadChoice \/ CheckSource \/ CheckSame \/ CreateDest \/ OpenIter)
    /\ pc = "advance" => ENABLED (Advance \/ Finish)
    /\ pc = "classify" =>
          \/ ~is_regular_file(disk, currentPath)
          \/ ~isTargetFile(currentPath, selectedType)
          \/ isTargetFile(currentPath, selectedType)
    /\ pc = "unique" => ProbingEnds
    /\ pc = "rename" => ENABLED Rename
    /\ pc = "copy" => ENABLED CopyFile
    /\ pc = "remove" => ENABLED Remove

\* C16: every run over a finite source tree terminates, with exit status 0
\* or 1, also when files are renamed into a directory that the walk is
\* still enumerating: the number of steps of a run is bounded, the probing
\* loop ends, a run that has not returned has a statement to run, and a run
\* that returned did so with 0 or 1.
C16_RunTerminates ==
    /\ steps <= StepBound
    /\ Exited \/ CanStep
    /\ Exited => exitCode \in {0, 1}

\* a run that ended although the walk had picked up a file it had just renamed
C16_Witness ==
    /\ Exited /\ exitCode = 0
    /\ RevisitedInDestination

\* the lines of the log of the kinds given, as a bag
LinesOf(kinds) == [l \in {x \in BagToSet(log) : x.kind \in kinds} |-> log[l]]
\* the step that ends the processing of a matching regular file
FinishesMatchingFile == pc \in {"rename", "copy", "remove"} /\ pc' = "advance"

\* C17: both counters start at 0; the step that finishes a matching file
\* adds exactly 1 to exactly one of them and no other step changes either,
\* so that at every point their sum is the number of matching files
\* finished; the Moved and Moved (copy+delete) lines are as many as
\* movedCount and the Skipped lines as many as skippedCount.
C17_CountersMatchOutcomes ==
    /\ movedCount = 0 /\ skippedCount = 0
    /\ [][IF FinishesMatchingFile
          THEN \/ movedCount' = movedCount + 1 /\ skippedCount' = skippedCount
               \/ movedCount' = movedCount /\ skippedCount' = skippedCount + 1
          ELSE movedCount' = movedCount /\ skippedCount' = skippedCount]_vars
    /\ [](/\ BagCardinality(LinesOf(MovedKinds)) = movedCount
          /\ BagCardinality(LinesOf({"Skipped"})) = skippedCount
          /\ BagCardinality(LinesOf(MovedKinds \cup {"Skipped"}))
                = movedCount + skippedCount)

\* a run that moved one file, skipped another and passed over a third entry
C17_Witness ==
    /\ Exited /\ exitCode = 0
    /\ DestinationOutside
    /\ movedCount = 1 /\ skippedCount = 1
    /\ BagCardinality(LinesOf(MovedKinds)) = 1
    /\ BagCardinality(LinesOf({"Skipped"})) = 1

\* after the step: the content the current entry had is at path p
ContentAt(p) == p \in DOMAIN disk' /\ disk'[p].body = disk[currentPath].body

\* C18: when the processing of a matching file finishes, its content is at
\* exactly one of its source path and its computed destination path, and
\* the file is counted as moved exactly when it is at the destination,
\* whichever of rename, copy and remove succeeded or failed.
C18_ContentAtExactlyOnePath ==
    [][FinishesMatchingFile =>
          /\ ContentAt(currentPath) # ContentAt(finalDestination)
          /\ (movedCount' = movedCount + 1) <=> ContentAt(finalDestination)]_vars

====
